---- MODULE Spec2Model ----
(***************************************************************************)
(* Model of the chrome-snapper background service worker                   *)
(* (src/chrome-snapper/background.js): the Remote Command Channel          *)
(* (WebSocket automation) and the tiled full-page capture.                 *)
(***************************************************************************)
EXTENDS Integers, Sequences, FiniteSets, TLC

\* ------------------------------------------------------------------ bounds
\* Sockets that may exist (not yet closed) at the same time.
MaxSockets == 2
\* Reconnect timers that may be pending at the same time.
MaxTimers == 2
\* Cap of the reconnect-attempt counter.
MaxAttempts == 7
\* Cap of the reconnect-attempt counter while commands are served.
MaxCmdAttempts == 1
\* Largest page width and height, and largest viewport width and height.
MaxPage == 3
MaxView == 2
MaxConcurrentTiles == 2
MaxTabGets == 1
\* Sockets in use at the same time in the specification with fair scheduling.
MaxFairSockets == 1
\* Cap of the reconnect-attempt counter in the specification with fair
\* scheduling.
MaxFairAttempts == 5

\* ------------------------------------------------------------ value domains
NULL == "null"
\* null as the value of ws, and of reconnectTimeout
NoSock == 0
NoTimer == 0

\* Endpoints the popup may ask for; all pass the popup's ws:// prefix check.
Urls == {"ws://a", "ws://b"}
\* An endpoint the WebSocket constructor rejects (it throws a SyntaxError).
BadUrls == {"ws://"}
AllUrls == Urls \cup BadUrls
\* The endpoint in use while commands are served.
CmdUrls == {"ws://a"}

SockIds == 1..MaxSockets
TimerIds == 1..MaxTimers

Min(a, b) == IF a <= b THEN a ELSE b

RECURSIVE Pow2(_)
Pow2(n) == IF n = 0 THEN 1 ELSE 2 * Pow2(n - 1)

VARIABLES
  \* module-level state of background.js
  ws,                 \* the current socket (an id of sockets) or NoSock
  wsUrl,              \* the configured endpoint or NULL
  reconnectAttempts,
  reconnectTimeout,   \* handle of the timer set last, or NoTimer
  isConnecting,
  \* environment of the channel
  sockets,            \* every WebSocket object: readyState and url
  timers,             \* handles of the pending setTimeout callbacks
  scheduledDelay,     \* the delay the last step gave to setTimeout (0: it set none)
  scheduledCount,     \* reconnects scheduled since the last open, connect or
                      \* disconnect request
  storedUrl,          \* chrome.storage.sync wsUrl
  loadedUrl,          \* the wsUrl the chrome.storage.sync.get of startup read,
                      \* until its callback has run
  started,            \* the storage callback of startup has run
  statusBroadcast,    \* the last wsStatusUpdate broadcast: "none", "connected", "disconnected"
  helloPending,       \* sockets whose onopen handler awaits chrome.tabs.query
  tabGets,            \* tabs.onActivated listeners awaiting their chrome.tabs.get
  cmds,               \* per requestId: the handleWsCommand call in progress
  wire,               \* the messages handed to ws.send() by the last step
  completed,          \* the handleWsCommand calls that returned in the last step
  discarded,          \* the socket whose message the last step discarded, or NoSock
  \* full-page capture
  page,               \* the document of the tab: its size and the viewport's
  scroll,             \* the scroll position of the tab, as last asked for
  cap                 \* per capture request: the captureFullPage call

chanVars == <<ws, wsUrl, reconnectAttempts, reconnectTimeout, isConnecting,
              sockets, timers, scheduledDelay, scheduledCount, storedUrl,
              loadedUrl, started, statusBroadcast, helloPending, tabGets>>

msgVars == <<cmds, wire, completed, discarded>>

capVars == <<page, scroll, cap>>

vars == <<chanVars, msgVars, capVars>>

NoSocket == [state |-> "NONE", url |-> NULL]

\* A message on the wire: `via` is the socket it was written to, `from` the
\* socket whose event handler produced it.
HelloMsg(tab, from) ==
  [type |-> "connected", tab |-> tab, requestId |-> NULL, success |-> FALSE,
   error |-> NULL, via |-> NoSock, from |-> from]

\* {type: 'tabUpdate', tabId, url, title} of the tab listeners, which are
\* handlers of no socket.
TabUpdateMsg ==
  [type |-> "tabUpdate", tab |-> TRUE, requestId |-> NULL, success |-> FALSE,
   error |-> NULL, via |-> NoSock, from |-> NoSock]

ResultMsg(requestId, success, error, from) ==
  [type |-> "result", tab |-> FALSE, requestId |-> requestId, success |-> success,
   error |-> error, via |-> NoSock, from |-> from]

\* Request identifiers the controller uses.
ReqIds == {"r1", "r2"}

\* Command types: the six of the protocol and one the extension does not know.
CmdTypes == {"getElements", "getContent", "click", "type", "navigate",
             "screenshot", "bogus"}

\* The commands the controller may send: the type and which of the optional
\* fields selector, (x, y) and url are present.
Commands ==
  {c \in [type : CmdTypes, selector : BOOLEAN, xy : BOOLEAN, url : BOOLEAN] :
     /\ c.selector => c.type = "click"
     /\ c.xy => c.type = "click"
     /\ c.url => c.type = "navigate"}

\* The command of the given type with the given optional fields present.
Command(type, selector, xy, url) ==
  [type |-> type, selector |-> selector, xy |-> xy, url |-> url]

\* No optional field, for the record of a command that returned after an await.
NoCommand == [type |-> NULL, selector |-> FALSE, xy |-> FALSE, url |-> FALSE]

\* A handleWsCommand call: the await it is suspended at and the socket whose
\* onmessage handler made the call.
Idle == [pc |-> "idle", origin |-> NoSock]

\* The channel state the functions of background.js read and write, as one
\* record, so that a handler is the composition of the functions it calls.
\* ok = FALSE: the step needs more sockets, timers or attempts than the bounds.
Chan ==
  [ws |-> ws, wsUrl |-> wsUrl, reconnectAttempts |-> reconnectAttempts,
   reconnectTimeout |-> reconnectTimeout, isConnecting |-> isConnecting,
   sockets |-> sockets, timers |-> timers, statusBroadcast |-> statusBroadcast,
   scheduledDelay |-> 0, scheduledCount |-> scheduledCount, ok |-> TRUE]

Commit(st) ==
  /\ st.ok
  /\ ws' = st.ws
  /\ wsUrl' = st.wsUrl
  /\ reconnectAttempts' = st.reconnectAttempts
  /\ reconnectTimeout' = st.reconnectTimeout
  /\ isConnecting' = st.isConnecting
  /\ sockets' = st.sockets
  /\ timers' = st.timers
  /\ statusBroadcast' = st.statusBroadcast
  /\ scheduledDelay' = st.scheduledDelay
  /\ scheduledCount' = st.scheduledCount

\* ws && ws.readyState === WebSocket.OPEN
IsOpen(st) == st.ws # NoSock /\ st.sockets[st.ws].state = "OPEN"

\* Socket ids not in use; the id of a closed socket stays taken while a handler
\* of that socket is still running.
FreeSocks(st) ==
  {s \in SockIds : /\ st.sockets[s].state = "NONE"
                   /\ s \notin helloPending
                   /\ \A r \in ReqIds : cmds[r].origin # s}

FreeTimers(st) == TimerIds \ st.timers

LeastOf(S) == CHOOSE x \in S : \A y \in S : x <= y

\* chrome.runtime.sendMessage({action: 'wsStatusUpdate', connected})
broadcastConnectionStatus(st, connected) ==
  [st EXCEPT !.statusBroadcast = IF connected THEN "connected" ELSE "disconnected"]

\* Mutant of ReconnectDelay: the cap of 30 seconds is missing.
ReconnectDelayUncapped(n) == 1000 * Pow2(n)

\* Math.min(1000 * Math.pow(2, reconnectAttempts), 30000)
ReconnectDelay(n) == Min(1000 * Pow2(n), 30000)

scheduleReconnect(st) ==
  IF st.wsUrl = NULL THEN st
  ELSE IF st.reconnectAttempts >= MaxAttempts \/ FreeTimers(st) = {}
  THEN [st EXCEPT !.ok = FALSE]
  ELSE LET delay == ReconnectDelay(st.reconnectAttempts)
           id == LeastOf(FreeTimers(st))
       IN [st EXCEPT !.reconnectAttempts = @ + 1,
                     !.timers = @ \cup {id},
                     !.scheduledDelay = delay,
                     !.scheduledCount = @ + 1,
                     !.reconnectTimeout = id]

connectWebSocket(st) ==
  IF st.wsUrl = NULL \/ st.isConnecting THEN st
  ELSE IF IsOpen(st) THEN st
  ELSE IF st.wsUrl \in BadUrls
  THEN \* new WebSocket(wsUrl) throws: the catch block
       scheduleReconnect([st EXCEPT !.isConnecting = FALSE])
  ELSE IF FreeSocks(st) = {} THEN [st EXCEPT !.ok = FALSE]
  ELSE LET s == LeastOf(FreeSocks(st))
       IN [st EXCEPT !.isConnecting = TRUE,
                     !.ws = s,
                     !.sockets[s] = [state |-> "CONNECTING", url |-> st.wsUrl]]

disconnectWebSocket(st) ==
  LET st1 == IF st.reconnectTimeout # NoTimer
             THEN [st EXCEPT !.timers = @ \ {st.reconnectTimeout},
                             !.reconnectTimeout = NoTimer]
             ELSE st
      st2 == [st1 EXCEPT !.reconnectAttempts = 0]
      st3 == IF st2.ws # NoSock
             THEN [st2 EXCEPT !.sockets[st2.ws].state = "CLOSING", !.ws = NoSock]
             ELSE st2
  IN broadcastConnectionStatus(st3, FALSE)

\* ws.onopen, up to its await of chrome.tabs.query
onopen(st) ==
  broadcastConnectionStatus(
    [st EXCEPT !.isConnecting = FALSE, !.reconnectAttempts = 0], TRUE)

\* A close handler that does not call scheduleReconnect.
oncloseNoReconnect(st) ==
  broadcastConnectionStatus([st EXCEPT !.isConnecting = FALSE, !.ws = NoSock], FALSE)

onclose(st) ==
  LET st1 == [st EXCEPT !.isConnecting = FALSE, !.ws = NoSock]
  IN scheduleReconnect(broadcastConnectionStatus(st1, FALSE))

onerror(st) == [st EXCEPT !.isConnecting = FALSE]

\* The socket's readyState becomes CLOSED; the object is then garbage.
Closed(st, s) == [st EXCEPT !.sockets[s] = NoSocket]

\* sendWsMessage(message): what ws.send() is given, if anything
sendWsMessage(message) ==
  IF IsOpen(Chan) THEN <<[message EXCEPT !.via = ws]>> ELSE <<>>

\* ------------------------------------------------------------------ actions

\* A step of the channel outside handleWsCommand: nothing is sent.
Quiet ==
  wire' = <<>> /\ completed' = <<>> /\ discarded' = NoSock /\ UNCHANGED <<cmds, capVars>>

\* The callback of chrome.storage.sync.get(['wsUrl'], ...) of startup with
\* result.wsUrl = u. The get is issued when the script is loaded, before any
\* message is handled: u is what the storage held then, or what it holds
\* now if the platform served the get after a later set or remove.
Startup(u) ==
  /\ ~started
  /\ u \in {loadedUrl, storedUrl}
  /\ started' = TRUE
  /\ IF u # NULL
     THEN Commit(connectWebSocket([Chan EXCEPT !.wsUrl = u]))
     ELSE Commit(Chan)
  /\ loadedUrl' = NULL
  /\ Quiet
  /\ UNCHANGED <<storedUrl, helloPending, tabGets>>

\* onMessage: wsConnect
WsConnect(u) ==
  /\ storedUrl' = u
  /\ Commit(connectWebSocket(disconnectWebSocket(
         [Chan EXCEPT !.wsUrl = u, !.scheduledCount = 0])))
  /\ Quiet
  /\ UNCHANGED <<loadedUrl, started, helloPending, tabGets>>

\* onMessage: wsDisconnect
WsDisconnect ==
  /\ storedUrl' = NULL
  /\ Commit(disconnectWebSocket([Chan EXCEPT !.wsUrl = NULL, !.scheduledCount = 0]))
  /\ Quiet
  /\ UNCHANGED <<loadedUrl, started, helloPending, tabGets>>

\* The handshake of socket s succeeds: readyState OPEN, the open event.
SocketOpen(s) ==
  /\ sockets[s].state = "CONNECTING"
  /\ Commit(onopen([Chan EXCEPT !.sockets[s].state = "OPEN", !.scheduledCount = 0]))
  /\ helloPending' = helloPending \cup {s}
  /\ UNCHANGED tabGets
  /\ Quiet
  /\ UNCHANGED <<storedUrl, loadedUrl, started>>

\* Socket s closes cleanly (the peer closed it, or the closing handshake that
\* ws.close() started has ended): readyState CLOSED, the close event.
SocketClose(s) ==
  /\ sockets[s].state \in {"OPEN", "CLOSING"}
  /\ Commit(onclose(Closed(Chan, s)))
  /\ Quiet
  /\ UNCHANGED <<storedUrl, loadedUrl, started, helloPending, tabGets>>

\* The connection of socket s fails: readyState CLOSED, the error event and
\* then the close event, in one task.
SocketError(s) ==
  /\ sockets[s].state \in {"CONNECTING", "OPEN"}
  /\ Commit(onclose(onerror(Closed(Chan, s))))
  /\ Quiet
  /\ UNCHANGED <<storedUrl, loadedUrl, started, helloPending, tabGets>>

\* The setTimeout callback of scheduleReconnect
TimerFired(t) ==
  /\ t \in timers
  /\ Commit(connectWebSocket([Chan EXCEPT !.timers = @ \ {t},
                                           !.reconnectTimeout = NoTimer]))
  /\ Quiet
  /\ UNCHANGED <<storedUrl, loadedUrl, started, helloPending, tabGets>>

\* ws.onopen of socket s after its await: chrome.tabs.query gave an active tab
\* ("tab"), gave none ("notab"), or rejected ("fail").
HelloResolved(s, outcome) ==
  /\ s \in helloPending
  /\ helloPending' = helloPending \ {s}
  /\ UNCHANGED tabGets
  /\ wire' = CASE outcome = "tab" -> sendWsMessage(HelloMsg(TRUE, s))
             [] outcome = "notab" -> <<>>
             [] outcome = "fail" -> sendWsMessage(HelloMsg(FALSE, s))
  /\ completed' = <<>>
  /\ discarded' = NoSock
  /\ UNCHANGED <<cmds, capVars>>
  /\ scheduledDelay' = 0
  /\ UNCHANGED <<ws, wsUrl, reconnectAttempts, reconnectTimeout, isConnecting,
                 sockets, timers, scheduledCount, storedUrl, loadedUrl, started,
                 statusBroadcast>>

\* The frame of a tab listener: no variable of the channel but tabGets.
TabFrame ==
  /\ completed' = <<>>
  /\ discarded' = NoSock
  /\ scheduledDelay' = 0
  /\ UNCHANGED <<ws, wsUrl, reconnectAttempts, reconnectTimeout, isConnecting,
                 sockets, timers, scheduledCount, storedUrl, loadedUrl, started,
                 statusBroadcast, helloPending, cmds, capVars>>

\* chrome.tabs.onUpdated with changeInfo.status: a tabUpdate is sent when the
\* socket is open and the status is 'complete'.
TabUpdated(status) ==
  /\ wire' = IF IsOpen(Chan) /\ status = "complete"
             THEN sendWsMessage(TabUpdateMsg) ELSE <<>>
  /\ UNCHANGED tabGets
  /\ TabFrame

\* chrome.tabs.onActivated: with the socket open the listener awaits
\* chrome.tabs.get (MaxTabGets lookups pending at most).
TabActivated ==
  /\ IsOpen(Chan) => tabGets < MaxTabGets
  /\ tabGets' = IF IsOpen(Chan) THEN tabGets + 1 ELSE tabGets
  /\ wire' = <<>>
  /\ TabFrame

\* The chrome.tabs.get of a tabs.onActivated listener settled: the tabUpdate
\* goes to sendWsMessage, which writes it to the socket open now, if any; or
\* the catch logs the rejection.
TabGetSettled(ok) ==
  /\ tabGets > 0
  /\ tabGets' = tabGets - 1
  /\ wire' = IF ok THEN sendWsMessage(TabUpdateMsg) ELSE <<>>
  /\ TabFrame

\* A handler that gives up the connection on a message it cannot parse.
onmessageMalformedClosing(st) == disconnectWebSocket(st)

\* ws.onmessage with data that JSON.parse rejects: the catch logs the error.
onmessageMalformed(st) == st

\* Socket s delivers a message that is not JSON.
ReceiveMalformed(s) ==
  /\ sockets[s].state = "OPEN"
  /\ Commit(onmessageMalformed([Chan EXCEPT !.scheduledCount = scheduledCount]))
  /\ wire' = <<>>
  /\ completed' = <<>>
  /\ discarded' = s
  /\ UNCHANGED <<cmds, capVars, storedUrl, loadedUrl, started, helloPending, tabGets>>

\* A catch block that sends the error without the requestId.
ReturnWithoutId(r, origin, at, c, success, error) ==
  /\ wire' = sendWsMessage(ResultMsg(IF success THEN r ELSE NULL, success, error, origin))
  /\ completed' = <<[requestId |-> r, origin |-> origin, at |-> at, command |-> c,
                     success |-> success, error |-> error]>>
  /\ cmds' = [cmds EXCEPT ![r] = Idle]

\* handleWsCommand returns: the Result {success, error} goes to sendWsMessage.
\* `at` is the await the call was suspended at ("sync": it never awaited, and
\* c is the command), `origin` the socket that delivered the command.
Return(r, origin, at, c, success, error) ==
  /\ wire' = sendWsMessage(ResultMsg(r, success, error, origin))
  /\ completed' = <<[requestId |-> r, origin |-> origin, at |-> at, command |-> c,
                     success |-> success, error |-> error]>>
  /\ cmds' = [cmds EXCEPT ![r] = Idle]

\* A switch whose click case calls executeInTab without looking at the target.
FirstAwaitClickUnchecked(c) ==
  CASE c.type \in {"getElements", "getContent", "type", "click"} -> "inject"
    [] c.type = "navigate" -> IF c.url THEN "update" ELSE "sync"
    [] c.type = "screenshot" -> "activate"
    [] OTHER -> "sync"

\* A switch whose navigate case calls chrome.tabs.update without looking at
\* the url.
FirstAwaitNavigateUnchecked(c) ==
  CASE c.type \in {"getElements", "getContent", "type"} -> "inject"
    [] c.type = "click" -> IF c.selector \/ c.xy THEN "inject" ELSE "sync"
    [] c.type = "navigate" -> "update"
    [] c.type = "screenshot" -> "activate"
    [] OTHER -> "sync"

\* The first await of handleWsCommand for command c, or "sync" if the switch
\* reaches sendWsMessage without awaiting.
FirstAwait(c) ==
  CASE c.type \in {"getElements", "getContent", "type"} -> "inject"
    [] c.type = "click" -> IF c.selector \/ c.xy THEN "inject" ELSE "sync"
    [] c.type = "navigate" -> IF c.url THEN "update" ELSE "sync"
    [] c.type = "screenshot" -> "activate"
    [] OTHER -> "sync"

\* The Result of a command that needs no await.
SyncError(c) ==
  CASE c.type = "click" -> "No selector or coordinates provided"
    [] c.type = "navigate" -> "No URL provided"
    [] OTHER -> "Unknown command type: " \o c.type

\* ws.onmessage of socket s with a well-formed command c carrying requestId r:
\* handleWsCommand up to its first await.
ReceiveCommand(s, r, c) ==
  /\ sockets[s].state = "OPEN"
  /\ cmds[r].pc = "idle"
  /\ IF FirstAwait(c) = "sync"
     THEN Return(r, s, "sync", c, FALSE, SyncError(c))
     ELSE /\ cmds' = [cmds EXCEPT ![r] = [pc |-> FirstAwait(c), origin |-> s]]
          /\ wire' = <<>>
          /\ completed' = <<>>
  /\ scheduledDelay' = 0
  /\ discarded' = NoSock
  /\ UNCHANGED <<ws, wsUrl, reconnectAttempts, reconnectTimeout, isConnecting,
                 sockets, timers, scheduledCount, storedUrl, loadedUrl, started,
                 statusBroadcast, helloPending, tabGets, capVars>>

\* The await handleWsCommand is suspended at settles: "ok" it resolved, "fail"
\* the page answered {success: false, error}, "reject" it rejected.
\*   inject, turndown, content   the three chrome.scripting.executeScript
\*            calls of executeInTab (interaction.js, turndown.js, content.js)
\*   message  chrome.tabs.sendMessage of executeInTab
\*   update   chrome.tabs.update(tabId, {url}) of navigate
\*   activate, settle, capture   captureTabScreenshot, which catches
CommandStep(r, outcome) ==
  LET cmd == cmds[r]
      goto(pc) == /\ cmds' = [cmds EXCEPT ![r].pc = pc]
                  /\ wire' = <<>>
                  /\ completed' = <<>>
      return(success, error) ==
        Return(r, cmd.origin, cmd.pc, NoCommand, success, error)
  IN
  /\ \/ /\ cmd.pc = "inject"
        /\ outcome \in {"ok", "reject"}
        /\ IF outcome = "ok" THEN goto("turndown")
           ELSE return(FALSE, "executeScript rejected")
     \/ /\ cmd.pc = "turndown"
        /\ outcome \in {"ok", "reject"}
        /\ IF outcome = "ok" THEN goto("content")
           ELSE return(FALSE, "executeScript rejected")
     \/ /\ cmd.pc = "content"
        /\ outcome \in {"ok", "reject"}
        /\ IF outcome = "ok" THEN goto("message")
           ELSE return(FALSE, "executeScript rejected")
     \/ /\ cmd.pc = "message"
        /\ IF outcome = "ok" THEN return(TRUE, NULL)
           ELSE IF outcome = "fail" THEN return(FALSE, "page error")
           ELSE return(FALSE, "sendMessage rejected")
     \/ /\ cmd.pc = "update"
        /\ outcome \in {"ok", "reject"}
        /\ IF outcome = "ok" THEN return(TRUE, NULL)
           ELSE return(FALSE, "tabs.update rejected")
     \/ /\ cmd.pc = "activate"
        /\ outcome \in {"ok", "reject"}
        /\ IF outcome = "ok" THEN goto("settle")
           ELSE return(FALSE, "tabs.update rejected")
     \/ /\ cmd.pc = "settle"
        /\ outcome = "ok"
        /\ goto("capture")
     \/ /\ cmd.pc = "capture"
        /\ outcome \in {"ok", "reject"}
        /\ IF outcome = "ok" THEN return(TRUE, NULL)
           ELSE return(FALSE, "captureVisibleTab rejected")
  /\ scheduledDelay' = 0
  /\ discarded' = NoSock
  /\ UNCHANGED <<ws, wsUrl, reconnectAttempts, reconnectTimeout, isConnecting,
                 sockets, timers, scheduledCount, storedUrl, loadedUrl, started,
                 statusBroadcast, helloPending, tabGets, capVars>>

\* ------------------------------------------------------- full-page capture

\* Capture requests of the popup.
Sessions == {"A"}

\* Capture requests of two popups (the popup was closed and opened again, or
\* a second window): the handler starts a captureFullPage call for each.
ConcurrentSessions == {"A", "B"}

\* The text annotations of a request: none, the empty one, or "hi".
TextMessages == {NULL, "", "hi"}

PageSizes == 1..MaxPage
ViewSizes == 1..MaxView

NoPage == [pageWidth |-> 0, pageHeight |-> 0, viewportWidth |-> 0, viewportHeight |-> 0]

Pages == [pageWidth : PageSizes, pageHeight : PageSizes,
          viewportWidth : ViewSizes, viewportHeight : ViewSizes]

\* Rounding down instead of up.
Floor(a, b) == a \div b

\* Math.ceil(a / b) for positive integers a and b: the quotient, and one more
\* when the division leaves a remainder.
Ceil(a, b) == IF a % b = 0 THEN a \div b ELSE (a \div b) + 1

\* let retries = 3
CaptureAttempts == 3

NoResponse ==
  [sent |-> FALSE, success |-> FALSE, tileCount |-> 0, mode |-> NULL, error |-> NULL]

\* A captureFullPage call before the request: the locals of the function, the
\* response given to sendResponse, and what the call asked of its
\* collaborators (the last progress message and scroll request, the capture
\* calls and backoff waits of the current tile, the POST bodies, the capture
\* calls of all tiles and the number of sendResponse calls; delivered: the
\* content script has received the scroll or reset message the call awaits).
IdleCapture ==
  [pc |-> "idle", captureMode |-> NULL, textMessage |-> NULL, hidden |-> FALSE,
   viewportWidth |-> 0, viewportHeight |-> 0,
   tilesX |-> 0, tilesY |-> 0, totalTiles |-> 0,
   row |-> 0, col |-> 0, tileIndex |-> 0, retries |-> 0, tiles |-> <<>>,
   response |-> NoResponse,
   progress |-> <<0, 0>>, scrolls |-> 0, scrollTo |-> <<0, 0>>,
   captureCalls |-> 0, backoffs |-> 0, posts |-> <<>>, resets |-> 0,
   totalCalls |-> 0, responses |-> 0, delivered |-> FALSE]

\* A tile text that puts the annotation in front without the brackets.
tileTextUnbracketed(c) ==
  LET place == "Tile " \o ToString(c.tileIndex) \o "/" \o ToString(c.totalTiles)
                 \o " at " \o ToString(c.col) \o "," \o ToString(c.row)
  IN IF c.textMessage # NULL /\ c.textMessage # "" THEN c.textMessage \o " " \o place
     ELSE place

\* `${textMessage} [Tile ${tileIndex}/${totalTiles} at ${col},${row}]`, or
\* without the annotation and the brackets when textMessage is not given
tileText(c) ==
  LET place == "Tile " \o ToString(c.tileIndex) \o "/" \o ToString(c.totalTiles)
                 \o " at " \o ToString(c.col) \o "," \o ToString(c.row)
  IN IF c.textMessage # NULL /\ c.textMessage # "" THEN c.textMessage \o " [" \o place \o "]" ELSE place

\* A handler without the .catch: a call that throws answers nobody.
FailSilently(c, message) == [c EXCEPT !.pc = "done"]

\* The catch of captureFullPage rethrows and the handler answers
\* {success: false, error: error.message}.
Fail(c, message) ==
  [c EXCEPT !.pc = "done",
            !.responses = @ + 1,
            !.response = [sent |-> TRUE, success |-> FALSE, tileCount |-> 0,
                          mode |-> NULL, error |-> message]]

\* The body of the tile loop up to the await of the scroll: the progress
\* message and the scrollToPosition request for cell (col, row).
BeginTile(c, row, col) ==
  [c EXCEPT !.row = row, !.col = col,
            !.tileIndex = @ + 1,
            !.progress = <<c.tileIndex + 1, c.totalTiles>>,
            !.scrolls = @ + 1,
            !.scrollTo = <<col * c.viewportWidth, row * c.viewportHeight>>,
            !.captureCalls = 0, !.backoffs = 0,
            !.pc = "scroll"]

\* After both loops: sendTilesToEndpoint(endpoint, tiles), one fetch POST.
SendTiles(c) == [c EXCEPT !.posts = Append(@, c.tiles), !.pc = "post"]

\* for (row ...) for (col ...): the first cell, or the end of the loops.
EnterLoops(c) ==
  IF c.tilesY > 0 /\ c.tilesX > 0 THEN BeginTile(c, 0, 0) ELSE SendTiles(c)

\* The loops nested the other way round: column by column.
NextCellColumnMajor(c) ==
  IF c.row + 1 < c.tilesY THEN BeginTile(c, c.row + 1, c.col)
  ELSE IF c.col + 1 < c.tilesX THEN BeginTile(c, 0, c.col + 1)
  ELSE SendTiles(c)

\* col++ of the inner loop, then row++ of the outer one.
NextCell(c) ==
  IF c.col + 1 < c.tilesX THEN BeginTile(c, c.row, c.col + 1)
  ELSE IF c.row + 1 < c.tilesY THEN BeginTile(c, c.row + 1, 0)
  ELSE SendTiles(c)

\* The dimensions arrived: the grid.
Grid(c, d) ==
  [c EXCEPT !.viewportWidth = d.viewportWidth,
            !.viewportHeight = d.viewportHeight,
            !.tilesY = Ceil(d.pageHeight, d.viewportHeight),
            !.tilesX = Ceil(d.pageWidth, d.viewportWidth),
            !.totalTiles = Ceil(d.pageHeight, d.viewportHeight)
                             * Ceil(d.pageWidth, d.viewportWidth),
            !.tiles = <<>>, !.tileIndex = 0]

\* chrome.tabs.captureVisibleTab is called.
CallCapture(c) ==
  [c EXCEPT !.captureCalls = @ + 1, !.totalCalls = @ + 1, !.pc = "capture"]

\* Sending each tile as it is captured.
PushTileAndSend(c) ==
  [c EXCEPT !.tiles = Append(@, [text |-> tileText(c), image |-> scroll,
                                 hidden |-> c.hidden]),
            !.posts = Append(@, <<[text |-> tileText(c), image |-> scroll,
                                   hidden |-> c.hidden]>>)]

\* The capture resolved: tiles.push({text, image, hidden}). The image is
\* the viewport of the tab at its scroll position.
PushTile(c) ==
  [c EXCEPT !.tiles = Append(@, [text |-> tileText(c), image |-> scroll,
                                 hidden |-> c.hidden])]

\* A retry loop that gives up one attempt late.
RateLimitedOneMore(c) ==
  LET c1 == [c EXCEPT !.retries = @ - 1]
  IN IF c1.retries >= 0
     THEN [c1 EXCEPT !.backoffs = @ + 1, !.pc = "backoff"]
     ELSE Fail(c1, "Rate limit exceeded after retries")

\* The catch of the retry loop for the rate-limit error.
RateLimited(c) ==
  LET c1 == [c EXCEPT !.retries = @ - 1]
  IN IF c1.retries > 0
     THEN [c1 EXCEPT !.backoffs = @ + 1, !.pc = "backoff"]
     ELSE Fail(c1, "Rate limit exceeded after retries")

\* A catch that takes every capture error for the rate-limit error.
OtherErrorRetried(c) == RateLimited(c)

\* The catch of the retry loop for any other error: throw error. It leaves
\* the loops, and the handler answers with the error's message.
OtherError(c) == Fail(c, "capture failed")

CapFrame == UNCHANGED <<chanVars, msgVars, page>>

Origin == <<0, 0>>

\* message.captureMode of a request: not given, the two modes of the popup,
\* and a string that names no mode.
CaptureModes == {NULL, "screenshot", "text", "full"}

\* A dispatch that tiles only when asked for a screenshot.
TakesTextPathUnlessScreenshot(captureMode) == captureMode # "screenshot"

\* const captureMode = message.captureMode || 'screenshot';
\* if (captureMode === 'text') captureTextMode(...) else captureFullPage(...)
TakesTextPath(captureMode) ==
  (IF captureMode = NULL THEN "screenshot" ELSE captureMode) = "text"

\* onMessage: captureFullPage with message.captureMode, up to the first await
\* of captureTextMode or captureFullPage (either begins with an injection).
CaptureModeRequest(s, captureMode, textMessage, hidden) ==
  /\ cap[s].pc = "idle"
  /\ cap' = [cap EXCEPT ![s] =
               [IdleCapture EXCEPT !.pc = IF TakesTextPath(captureMode)
                                          THEN "turndown" ELSE "inject",
                                   !.captureMode = captureMode,
                                   !.textMessage = textMessage,
                                   !.hidden = hidden]]
  /\ UNCHANGED scroll
  /\ CapFrame

\* onMessage: captureFullPage (screenshot mode), up to the first await
CaptureRequest(s, textMessage, hidden) ==
  CaptureModeRequest(s, "screenshot", textMessage, hidden)

\* result.markdown of the content script: an empty page or a heading.
Markdowns == {"", "# T"}

\* captureTextMode: one of its two executeScript calls settled (turndown.js,
\* then content.js); after the second, extractPageContent is asked.
TextInjectSettled(s, ok) ==
  /\ cap[s].pc \in {"turndown", "content"}
  /\ cap' = [cap EXCEPT ![s] =
               IF ~ok THEN Fail(@, "executeScript rejected")
               ELSE [@ EXCEPT !.pc = IF cap[s].pc = "turndown" THEN "content"
                                     ELSE "extract"]]
  /\ UNCHANGED scroll
  /\ CapFrame

\* payload = [{text: markdown, hidden}], the markdown behind the annotation
\* and a rule when textMessage is given
TextPayload(c, markdown) ==
  <<[text |-> IF c.textMessage # NULL /\ c.textMessage # ""
              THEN c.textMessage \o "\n\n---\n\n" \o markdown ELSE markdown,
     hidden |-> c.hidden]>>

ExtractFailedMessage == "Failed to extract page content"

\* The content script answered extractPageContent: "ok" with {success: true,
\* markdown}, "fail" with success false, or the message was rejected. On
\* "ok" sendToEndpoint(endpoint, payload) makes the one fetch POST.
ExtractSettled(s, outcome, markdown) ==
  /\ cap[s].pc = "extract"
  /\ cap' = [cap EXCEPT ![s] =
               CASE outcome = "ok" ->
                      [@ EXCEPT !.posts = Append(@, TextPayload(cap[s], markdown)),
                                !.pc = "textpost"]
                 [] outcome = "fail" -> Fail(@, ExtractFailedMessage)
                 [] outcome = "reject" -> Fail(@, "sendMessage rejected")]
  /\ UNCHANGED scroll
  /\ CapFrame

\* chrome.scripting.executeScript settled; then getPageDimensions is asked.
InjectSettled(s, ok) ==
  /\ cap[s].pc = "inject"
  /\ cap' = [cap EXCEPT ![s] = IF ok THEN [@ EXCEPT !.pc = "dims"]
                                ELSE Fail(@, "executeScript rejected")]
  /\ UNCHANGED scroll
  /\ CapFrame

\* The content script answered getPageDimensions (or the message failed).
DimensionsSettled(s, ok) ==
  /\ cap[s].pc = "dims"
  /\ cap' = [cap EXCEPT ![s] = IF ok THEN EnterLoops(Grid(@, page))
                                ELSE Fail(@, "sendMessage rejected")]
  /\ UNCHANGED scroll
  /\ CapFrame

\* The content script receives scrollToPosition: window.scrollTo({left: x,
\* top: y}); its acknowledgement follows from a setTimeout of 100 ms.
ScrollDelivered(s) ==
  /\ cap[s].pc = "scroll"
  /\ ~cap[s].delivered
  /\ cap' = [cap EXCEPT ![s].delivered = TRUE]
  /\ scroll' = cap[s].scrollTo
  /\ CapFrame

\* scrollToPosition was acknowledged (the tab had scrolled), or the message
\* failed, before or after the tab received it; then sleep(600).
ScrollSettled(s, ok) ==
  /\ cap[s].pc = "scroll"
  /\ ok => cap[s].delivered
  /\ cap' = [cap EXCEPT ![s] =
               IF ok THEN [@ EXCEPT !.pc = "settle", !.delivered = FALSE]
               ELSE Fail([@ EXCEPT !.delivered = FALSE], "sendMessage rejected")]
  /\ UNCHANGED scroll
  /\ CapFrame

\* sleep(600) elapsed: retries = 3 and the first captureVisibleTab call.
SettleElapsed(s) ==
  /\ cap[s].pc = "settle"
  /\ cap' = [cap EXCEPT ![s] = CallCapture([@ EXCEPT !.retries = CaptureAttempts])]
  /\ UNCHANGED scroll
  /\ CapFrame

\* captureVisibleTab settled: "ok" a data URL, "ratelimit" the
\* MAX_CAPTURE_VISIBLE_TAB_CALLS_PER_SECOND error, "error" any other error.
CaptureSettled(s, outcome) ==
  /\ cap[s].pc = "capture"
  /\ cap' = [cap EXCEPT ![s] =
               CASE outcome = "ok" -> NextCell(PushTile(@))
                 [] outcome = "ratelimit" -> RateLimited(@)
                 [] outcome = "error" -> OtherError(@)]
  /\ UNCHANGED scroll
  /\ CapFrame

\* sleep(1000) elapsed: the next captureVisibleTab call.
BackoffElapsed(s) ==
  /\ cap[s].pc = "backoff"
  /\ cap' = [cap EXCEPT ![s] = CallCapture(@)]
  /\ UNCHANGED scroll
  /\ CapFrame

\* What the fetch of sendTilesToEndpoint may settle with: a response with a
\* status and its reason text, or a rejection (the network failed).
FetchOutcomes ==
  {[kind |-> "response", status |-> 200, statusText |-> "OK"],
   [kind |-> "response", status |-> 204, statusText |-> "No Content"],
   [kind |-> "response", status |-> 404, statusText |-> "Not Found"],
   [kind |-> "response", status |-> 500, statusText |-> "Internal Server Error"],
   [kind |-> "reject", status |-> 0, statusText |-> "Failed to fetch"]}

\* response.ok: the status is in the range 200-299
ResponseOk(r) == r.status >= 200 /\ r.status <= 299

\* sendTilesToEndpoint settled with r: it throws `HTTP ${status}:
\* ${statusText}` unless response.ok; otherwise resetScroll is asked.
AfterPost(c, r) ==
  IF r.kind = "reject" THEN Fail(c, r.statusText)
  ELSE IF ~ResponseOk(r)
  THEN Fail(c, "HTTP " \o ToString(r.status) \o ": " \o r.statusText)
  ELSE [c EXCEPT !.resets = @ + 1, !.pc = "reset"]

\* The fetch of sendTilesToEndpoint settled with outcome r.
PostSettled(s, r) ==
  /\ cap[s].pc = "post"
  /\ cap' = [cap EXCEPT ![s] = AfterPost(@, r)]
  /\ UNCHANGED scroll
  /\ CapFrame

\* The content script receives resetScroll: window.scrollTo({left: 0, top:
\* 0}); its acknowledgement follows from a setTimeout of 100 ms.
ResetDelivered(s) ==
  /\ cap[s].pc = "reset"
  /\ ~cap[s].delivered
  /\ cap' = [cap EXCEPT ![s].delivered = TRUE]
  /\ scroll' = Origin
  /\ CapFrame

\* resetScroll was acknowledged (the tab had scrolled back): the call returns
\* {success: true, tileCount: totalTiles}; or the message failed, before or
\* after the tab received it: sendMessageToTab rejects inside the try, and the
\* catch rethrows.
ResetSettled(s, ok) ==
  /\ cap[s].pc = "reset"
  /\ ok => cap[s].delivered
  /\ cap' = [cap EXCEPT ![s] =
               IF ok THEN [@ EXCEPT !.pc = "done",
                                    !.delivered = FALSE,
                                    !.responses = @ + 1,
                                    !.response = [sent |-> TRUE, success |-> TRUE,
                                                  tileCount |-> cap[s].totalTiles,
                                                  mode |-> NULL, error |-> NULL]]
               ELSE Fail([@ EXCEPT !.delivered = FALSE], "sendMessage rejected")]
  /\ UNCHANGED scroll
  /\ CapFrame

\* The fetch of sendToEndpoint settled with r: it throws `HTTP ${status}:
\* ${statusText}` unless response.ok; otherwise the call returns {success:
\* true, mode: 'text'}.
TextPostSettled(s, r) ==
  /\ cap[s].pc = "textpost"
  /\ cap' = [cap EXCEPT ![s] =
               IF r.kind = "reject" THEN Fail(@, r.statusText)
               ELSE IF ~ResponseOk(r)
               THEN Fail(@, "HTTP " \o ToString(r.status) \o ": " \o r.statusText)
               ELSE [@ EXCEPT !.pc = "done",
                              !.responses = @ + 1,
                              !.response = [sent |-> TRUE, success |-> TRUE,
                                            tileCount |-> 0, mode |-> "text",
                                            error |-> NULL]]]
  /\ UNCHANGED scroll
  /\ CapFrame

ChannelInit ==
  /\ ws = NoSock
  /\ wsUrl = NULL
  /\ reconnectAttempts = 0
  /\ reconnectTimeout = NoTimer
  /\ isConnecting = FALSE
  /\ sockets = [s \in SockIds |-> NoSocket]
  /\ timers = {}
  /\ scheduledDelay = 0
  /\ scheduledCount = 0
  /\ storedUrl \in AllUrls \cup {NULL}
  /\ loadedUrl = storedUrl
  /\ started = FALSE
  /\ statusBroadcast = "none"
  /\ helloPending = {}
  /\ tabGets = 0
  /\ cmds = [r \in ReqIds |-> Idle]
  /\ wire = <<>>
  /\ completed = <<>>
  /\ discarded = NoSock
  /\ page = NoPage
  /\ scroll = Origin
  /\ cap = [s \in ConcurrentSessions |-> IdleCapture]

ChannelNext ==
  \/ \E u \in AllUrls \cup {NULL} : Startup(u)
  \/ \E u \in AllUrls : WsConnect(u)
  \/ WsDisconnect
  \/ \E s \in SockIds : SocketOpen(s)
  \/ \E s \in SockIds : SocketClose(s)
  \/ \E s \in SockIds : SocketError(s)
  \/ \E t \in TimerIds : TimerFired(t)
  \/ \E s \in SockIds, o \in {"tab", "notab", "fail"} : HelloResolved(s, o)
  \/ \E st \in {"loading", "complete"} : TabUpdated(st)
  \/ TabActivated
  \/ \E ok \in BOOLEAN : TabGetSettled(ok)

ChannelSpec == ChannelInit /\ [][ChannelNext]_vars

\* The channel with one endpoint the constructor accepts and the one it
\* rejects, the popup free to act before the startup callback, the attempt
\* counter up to MaxAttempts; the tab listeners are left out.
BackoffNext ==
  \/ \E u \in AllUrls \cup {NULL} : Startup(u)
  \/ \E u \in CmdUrls \cup BadUrls : WsConnect(u)
  \/ WsDisconnect
  \/ \E s \in SockIds : SocketOpen(s)
  \/ \E s \in SockIds : SocketClose(s)
  \/ \E s \in SockIds : SocketError(s)
  \/ \E t \in TimerIds : TimerFired(t)
  \/ \E s \in SockIds, o \in {"tab", "notab", "fail"} : HelloResolved(s, o)

BackoffInit == ChannelInit /\ storedUrl \in CmdUrls \cup BadUrls \cup {NULL}

BackoffSpec == BackoffInit /\ [][BackoffNext]_vars

\* The closing handshake that ws.close() started on socket s ends.
ClosingDone(s) == sockets[s].state = "CLOSING" /\ SocketClose(s)

\* Endpoints of the specification with fair scheduling: one the constructor
\* accepts and the one it rejects.
ReconnectUrls == CmdUrls \cup BadUrls

ReconnectInit == ChannelInit /\ storedUrl \in ReconnectUrls \cup {NULL}

\* The bounds of the specification with fair scheduling: the attempt counter,
\* and the sockets in use (not yet closed, or closed with the onopen handler
\* still awaiting chrome.tabs.query).
ReconnectBounds ==
  /\ reconnectAttempts <= MaxFairAttempts
  /\ Cardinality({s \in SockIds : sockets[s].state # "NONE"} \cup helloPending)
       <= MaxFairSockets

TimerFiredInBounds(t) == TimerFired(t) /\ ReconnectBounds'

ClosingDoneInBounds(s) == ClosingDone(s) /\ ReconnectBounds'

HelloSettled(s) == \E o \in {"tab", "notab", "fail"} : HelloResolved(s, o)

\* The tab listeners, which write no variable of the channel, are left out.
ReconnectNext ==
  \/ \E u \in AllUrls \cup {NULL} : Startup(u) /\ ReconnectBounds'
  \/ \E u \in ReconnectUrls : WsConnect(u) /\ ReconnectBounds'
  \/ WsDisconnect /\ ReconnectBounds'
  \/ \E s \in SockIds : SocketOpen(s) /\ ReconnectBounds'
  \/ \E s \in SockIds : SocketClose(s) /\ ReconnectBounds'
  \/ \E s \in SockIds : SocketError(s) /\ ReconnectBounds'
  \/ \E t \in TimerIds : TimerFiredInBounds(t)
  \/ \E s \in SockIds : HelloSettled(s)

\* The channel with the scheduling the platform gives: a timer that is set
\* fires, a closing handshake ends, chrome.tabs.query settles.
ReconnectSpec ==
  /\ ReconnectInit
  /\ [][ReconnectNext]_vars
  /\ \A t \in TimerIds : WF_vars(TimerFiredInBounds(t))
  /\ \A s \in SockIds : WF_vars(ClosingDoneInBounds(s))
  /\ \A s \in SockIds : WF_vars(HelloSettled(s))

\* The channel with a controller that sends commands.
CommandInit == ChannelInit /\ storedUrl \in CmdUrls \cup {NULL}

\* The controller sends a command once the previous one has returned.
OneAtATime ==
  \A r1, r2 \in ReqIds : (cmds[r1].pc # "idle" /\ cmds[r2].pc # "idle") => r1 = r2

\* The bounds of the channel while commands are served.
CmdBounds == reconnectAttempts <= MaxCmdAttempts /\ OneAtATime

CommandNext ==
  \/ \E u \in AllUrls \cup {NULL} : Startup(u) /\ CmdBounds'
  \/ \E u \in CmdUrls : WsConnect(u) /\ CmdBounds'
  \/ WsDisconnect /\ CmdBounds'
  \/ \E s \in SockIds : SocketOpen(s) /\ CmdBounds'
  \/ \E s \in SockIds : SocketClose(s) /\ CmdBounds'
  \/ \E s \in SockIds : SocketError(s) /\ CmdBounds'
  \/ \E t \in TimerIds : TimerFired(t) /\ CmdBounds'
  \/ \E s \in SockIds, o \in {"tab", "notab", "fail"} : HelloResolved(s, o) /\ CmdBounds'
  \/ \E s \in SockIds, r \in ReqIds, c \in Commands :
        ReceiveCommand(s, r, c) /\ CmdBounds'
  \/ \E r \in ReqIds, o \in {"ok", "fail", "reject"} : CommandStep(r, o) /\ CmdBounds'
  \/ \E st \in {"loading", "complete"} : TabUpdated(st) /\ CmdBounds'
  \/ TabActivated /\ CmdBounds'
  \/ \E ok \in BOOLEAN : TabGetSettled(ok) /\ CmdBounds'

CommandSpec == CommandInit /\ [][CommandNext]_vars

\* The channel as the controller sees it, the popup left alone: the stored
\* endpoint is connected at startup and reconnected after each loss, and the
\* controller sends commands, two at a time at most, and malformed messages;
\* pages finish loading (tabs.onUpdated). The tabs.onActivated listener, with
\* its await, is followed in ChannelSpec and CommandSpec.
DispatchInit == ChannelInit /\ storedUrl \in CmdUrls

DispatchBounds == reconnectAttempts <= MaxCmdAttempts

DispatchNext ==
  \/ \E u \in AllUrls \cup {NULL} : Startup(u) /\ DispatchBounds'
  \/ \E s \in SockIds : SocketOpen(s) /\ DispatchBounds'
  \/ \E s \in SockIds : SocketClose(s) /\ DispatchBounds'
  \/ \E s \in SockIds : SocketError(s) /\ DispatchBounds'
  \/ \E t \in TimerIds : TimerFired(t) /\ DispatchBounds'
  \/ \E s \in SockIds, o \in {"tab", "notab", "fail"} : HelloResolved(s, o) /\ DispatchBounds'
  \/ \E s \in SockIds : ReceiveMalformed(s) /\ DispatchBounds'
  \/ \E s \in SockIds, r \in ReqIds, c \in Commands :
        ReceiveCommand(s, r, c) /\ DispatchBounds'
  \/ \E r \in ReqIds, o \in {"ok", "fail", "reject"} : CommandStep(r, o) /\ DispatchBounds'
  \/ \E st \in {"loading", "complete"} : TabUpdated(st) /\ DispatchBounds'

DispatchSpec == DispatchInit /\ [][DispatchNext]_vars

\* The capture of one page by the requests of Sessions.
CaptureInit ==
  /\ ws = NoSock
  /\ wsUrl = NULL
  /\ reconnectAttempts = 0
  /\ reconnectTimeout = NoTimer
  /\ isConnecting = FALSE
  /\ sockets = [s \in SockIds |-> NoSocket]
  /\ timers = {}
  /\ scheduledDelay = 0
  /\ scheduledCount = 0
  /\ storedUrl = NULL
  /\ loadedUrl = NULL
  /\ started = FALSE
  /\ statusBroadcast = "none"
  /\ helloPending = {}
  /\ tabGets = 0
  /\ cmds = [r \in ReqIds |-> Idle]
  /\ wire = <<>>
  /\ completed = <<>>
  /\ discarded = NoSock
  /\ page \in Pages
  /\ scroll = Origin
  /\ cap = [s \in ConcurrentSessions |-> IdleCapture]

CaptureNext ==
  \/ \E s \in Sessions, m \in TextMessages, h \in BOOLEAN : CaptureRequest(s, m, h)
  \/ \E s \in Sessions, ok \in BOOLEAN : InjectSettled(s, ok)
  \/ \E s \in Sessions, ok \in BOOLEAN : DimensionsSettled(s, ok)
  \/ \E s \in Sessions : ScrollDelivered(s)
  \/ \E s \in Sessions, ok \in BOOLEAN : ScrollSettled(s, ok)
  \/ \E s \in Sessions : SettleElapsed(s)
  \/ \E s \in Sessions, o \in {"ok", "ratelimit", "error"} : CaptureSettled(s, o)
  \/ \E s \in Sessions : BackoffElapsed(s)
  \/ \E s \in Sessions, r \in FetchOutcomes : PostSettled(s, r)
  \/ \E s \in Sessions : ResetDelivered(s)
  \/ \E s \in Sessions, ok \in BOOLEAN : ResetSettled(s, ok)

CaptureSpec == CaptureInit /\ [][CaptureNext]_vars

\* The await a captureFullPage call is suspended at settles, one way or the
\* other: the collaborator resolves or rejects, the timer of a sleep fires.
AwaitSettled(s) ==
  \/ \E ok \in BOOLEAN : InjectSettled(s, ok)
  \/ \E ok \in BOOLEAN : DimensionsSettled(s, ok)
  \/ ScrollDelivered(s)
  \/ \E ok \in BOOLEAN : ScrollSettled(s, ok)
  \/ SettleElapsed(s)
  \/ \E o \in {"ok", "ratelimit", "error"} : CaptureSettled(s, o)
  \/ BackoffElapsed(s)
  \/ \E r \in FetchOutcomes : PostSettled(s, r)
  \/ ResetDelivered(s)
  \/ \E ok \in BOOLEAN : ResetSettled(s, ok)

\* The capture of one page when every collaborator call eventually resolves
\* or rejects and every sleep ends.
CaptureFairSpec ==
  /\ CaptureInit
  /\ [][CaptureNext]_vars
  /\ \A s \in Sessions : WF_vars(AwaitSettled(s))

\* The capture of one page by a request in either mode: the handler takes
\* the text path or the tiling path by message.captureMode.
ModeNext ==
  \/ \E s \in Sessions, cm \in CaptureModes, m \in TextMessages, h \in BOOLEAN :
        CaptureModeRequest(s, cm, m, h)
  \/ \E s \in Sessions, ok \in BOOLEAN : TextInjectSettled(s, ok)
  \/ \E s \in Sessions, o \in {"ok", "fail", "reject"}, md \in Markdowns :
        ExtractSettled(s, o, md)
  \/ \E s \in Sessions, r \in FetchOutcomes : TextPostSettled(s, r)
  \/ \E s \in Sessions, ok \in BOOLEAN : InjectSettled(s, ok)
  \/ \E s \in Sessions, ok \in BOOLEAN : DimensionsSettled(s, ok)
  \/ \E s \in Sessions : ScrollDelivered(s)
  \/ \E s \in Sessions, ok \in BOOLEAN : ScrollSettled(s, ok)
  \/ \E s \in Sessions : SettleElapsed(s)
  \/ \E s \in Sessions, o \in {"ok", "ratelimit", "error"} : CaptureSettled(s, o)
  \/ \E s \in Sessions : BackoffElapsed(s)
  \/ \E s \in Sessions, r \in FetchOutcomes : PostSettled(s, r)
  \/ \E s \in Sessions : ResetDelivered(s)
  \/ \E s \in Sessions, ok \in BOOLEAN : ResetSettled(s, ok)

ModeSpec == CaptureInit /\ [][ModeNext]_vars

\* The capture of one page by two requests whose calls interleave at their
\* awaits: the handler of captureFullPage messages holds no request back.
ConcurrentNext ==
  \/ \E s \in ConcurrentSessions : CaptureRequest(s, NULL, FALSE)
  \/ \E s \in ConcurrentSessions, ok \in BOOLEAN : InjectSettled(s, ok)
  \/ \E s \in ConcurrentSessions, ok \in BOOLEAN : DimensionsSettled(s, ok)
  \/ \E s \in ConcurrentSessions : ScrollDelivered(s)
  \/ \E s \in ConcurrentSessions, ok \in BOOLEAN : ScrollSettled(s, ok)
  \/ \E s \in ConcurrentSessions : SettleElapsed(s)
  \/ \E s \in ConcurrentSessions, o \in {"ok", "ratelimit", "error"} :
        CaptureSettled(s, o)
  \/ \E s \in ConcurrentSessions : BackoffElapsed(s)
  \/ \E s \in ConcurrentSessions, r \in FetchOutcomes : PostSettled(s, r)
  \/ \E s \in ConcurrentSessions : ResetDelivered(s)
  \/ \E s \in ConcurrentSessions, ok \in BOOLEAN : ResetSettled(s, ok)

\* The pages of the two-request specification: those of at most
\* MaxConcurrentTiles tiles.
ConcurrentInit ==
  /\ CaptureInit
  /\ Ceil(page.pageWidth, page.viewportWidth)
        * Ceil(page.pageHeight, page.viewportHeight) <= MaxConcurrentTiles

ConcurrentSpec == ConcurrentInit /\ [][ConcurrentNext]_vars

\* ------------------------------------------------------------------ claims

\* Sockets created by the channel that are in CONNECTING or OPEN state.
LiveSockets == {s \in SockIds : sockets[s].state \in {"CONNECTING", "OPEN"}}

\* C1: in every reachable state at most one WebSocket created by the channel
\* is live (CONNECTING or OPEN).
C1_AtMostOneLiveSocket == Cardinality(LiveSockets) <= 1

\* C2: a wsConnect request for endpoint E handled while the channel is Open to
\* E is a no-op: it creates no WebSocket and does not close the existing one,
\* and exactly one connection is live afterwards.
C2_ConnectIdempotent ==
  [][\A u \in Urls :
       (WsConnect(u) /\ IsOpen(Chan) /\ sockets[ws].url = u)
         => (sockets' = sockets /\ ws' = ws /\ Cardinality(LiveSockets') = 1)]_vars

\* C3: once wsDisconnect has been handled (the stored endpoint is removed)
\* and until the next connect request stores one, no step schedules a
\* reconnect timer and no step creates a WebSocket; this covers the close
\* event of the socket the disconnect tore down and the firing of timers set
\* before the disconnect.
C3_NoReconnectAfterDisconnect ==
  [][(storedUrl = NULL /\ storedUrl' = NULL)
       => /\ scheduledDelay' = 0
          /\ timers' \subseteq timers
          /\ \A s \in SockIds : sockets[s].state = "NONE" => sockets'[s].state = "NONE"]_vars

\* C4: in every reachable state at most one reconnect timer is pending.
C4_AtMostOneTimer == Cardinality(timers) <= 1

\* The backoff sequence of the specification: 1000, 2000, 4000, 8000, 16000,
\* then 30000 for every later attempt.
ExpectedDelay(k) ==
  CASE k = 1 -> 1000 [] k = 2 -> 2000 [] k = 3 -> 4000 [] k = 4 -> 8000
    [] k = 5 -> 16000 [] OTHER -> 30000

\* C5: the k-th reconnect scheduled since the last successful open or explicit
\* connect/disconnect has delay min(1000 * 2^(k-1), 30000), i.e. 1000, 2000,
\* 4000, 8000, 16000, 30000, 30000, ...; and the attempt counter equals the
\* number of reconnects scheduled since then (0 right after an open).
C5_BackoffSequence ==
  /\ reconnectAttempts = scheduledCount
  /\ scheduledDelay # 0 => scheduledDelay = ExpectedDelay(scheduledCount)

\* C5 witness: the seventh consecutive reconnect, the second one at the cap.
C5_Witness == scheduledDelay = 30000 /\ scheduledCount = 7 /\ reconnectAttempts = 7

\* C6: every well-formed command yields exactly one Result of type "result"
\* with its requestId on the channel: whenever a handleWsCommand call has
\* returned, that step wrote exactly that one message to a socket.
C6_ExactlyOneResult ==
  \A i \in 1..Len(completed) :
    /\ Len(wire) = 1
    /\ wire[1].type = "result"
    /\ wire[1].requestId = completed[i].requestId

InTileLoop(c) == c.pc \in {"scroll", "settle", "capture", "backoff"}

RateLimitMessage == "Rate limit exceeded after retries"

\* C7: for each tile captureVisibleTab is called at most 3 times; when the
\* third call succeeds after two rate-limit rejections the tile is produced
\* and the call goes on without an error; when the third call is rejected
\* with the rate-limit error too, the request fails with "Rate limit exceeded
\* after retries", and from then on no tile is scrolled to or captured.
C7_RateLimitRetry ==
  [][\A s \in Sessions :
       /\ cap'[s].captureCalls <= 3
       /\ (CaptureSettled(s, "ok") /\ cap[s].captureCalls = 3) =>
             /\ Len(cap'[s].tiles) = Len(cap[s].tiles) + 1
             /\ ~cap'[s].response.sent
       /\ (CaptureSettled(s, "ratelimit") /\ cap[s].captureCalls = 3) =>
             /\ cap'[s].pc = "done"
             /\ cap'[s].response.sent /\ ~cap'[s].response.success
             /\ cap'[s].response.error = RateLimitMessage
             /\ cap'[s].posts = <<>>
       /\ (CaptureSettled(s, "ratelimit") /\ cap[s].captureCalls < 3) =>
             ~cap'[s].response.sent
       /\ cap[s].pc = "done" =>
             /\ cap'[s].scrolls = cap[s].scrolls
             /\ cap'[s].captureCalls = cap[s].captureCalls
             /\ cap'[s].tiles = cap[s].tiles
             /\ scroll' = scroll
     ]_vars

\* Three rate-limit rejections on the second tile of four.
C7_Witness ==
  \E s \in Sessions :
    /\ cap[s].pc = "done"
    /\ cap[s].response.error = RateLimitMessage
    /\ cap[s].captureCalls = 3 /\ cap[s].backoffs = 2
    /\ Len(cap[s].tiles) = 1 /\ cap[s].totalTiles = 4
    /\ cap[s].scrolls = 2

\* C8: a request makes at most one POST; the POST is made only when all
\* tilesX * tilesY tiles are captured and its body is the whole tile array;
\* a request that fails in the tile loop makes no POST.
C8_AllOrNothing ==
  \A s \in Sessions :
    /\ Len(cap[s].posts) <= 1
    /\ cap[s].posts # <<>> =>
          /\ cap[s].posts[1] = cap[s].tiles
          /\ Len(cap[s].tiles) = cap[s].tilesX * cap[s].tilesY
          /\ cap[s].tilesX * cap[s].viewportWidth >= page.pageWidth
          /\ cap[s].tilesY * cap[s].viewportHeight >= page.pageHeight
    /\ InTileLoop(cap[s]) => cap[s].posts = <<>>
    /\ (cap[s].pc = "done" /\ Len(cap[s].tiles) < cap[s].tilesX * cap[s].tilesY) =>
          /\ ~cap[s].response.success
          /\ cap[s].posts = <<>>

\* The one POST of a four-tile capture.
C8_Witness ==
  \E s \in Sessions :
    /\ cap[s].pc = "reset"
    /\ Len(cap[s].posts) = 1
    /\ Len(cap[s].posts[1]) = 4

\* The least n with n * b >= a.
CeilOf(a, b) == CHOOSE n \in 0..a : n * b >= a /\ \A m \in 0..(n - 1) : m * b < a

\* C9: with positive page and viewport sizes, tilesX = ceil(pageWidth /
\* viewportWidth) and tilesY = ceil(pageHeight / viewportHeight); a capture
\* that succeeds has captured tilesX * tilesY tiles and reports that number
\* as tileCount; a page no larger than the viewport gives one tile.
C9_GridSize ==
  \A s \in Sessions :
    LET c == cap[s]
        columns == CeilOf(page.pageWidth, page.viewportWidth)
        rows == CeilOf(page.pageHeight, page.viewportHeight)
    IN /\ (InTileLoop(c) \/ c.pc \in {"post", "reset"} \/ c.response.success) =>
            /\ c.tilesX = columns
            /\ c.tilesY = rows
            /\ c.totalTiles = columns * rows
       /\ c.pc \in {"post", "reset"} => Len(c.tiles) = columns * rows
       /\ c.response.success =>
            /\ Len(c.tiles) = columns * rows
            /\ c.response.tileCount = columns * rows
            /\ (page.pageWidth <= page.viewportWidth
                  /\ page.pageHeight <= page.viewportHeight) =>
                    c.response.tileCount = 1

\* A page of 3 x 3 in a viewport of 2 x 2: four tiles.
C9_Witness ==
  \E s \in Sessions :
    /\ page.pageWidth = 3 /\ page.viewportWidth = 2
    /\ page.pageHeight = 3 /\ page.viewportHeight = 2
    /\ cap[s].response.success
    /\ cap[s].response.tileCount = 4
    /\ Len(cap[s].tiles) = 4

\* The text of the i-th tile of a grid with the given number of columns.
TextOfCell(i, total, columns, textMessage) ==
  LET place == "Tile " \o ToString(i) \o "/" \o ToString(total) \o " at "
                 \o ToString((i - 1) % columns) \o ","
                 \o ToString((i - 1) \div columns)
  IN IF textMessage \in {NULL, ""} THEN place
     ELSE textMessage \o " [" \o place \o "]"

\* C10: the i-th tile captured is the cell col = (i-1) mod tilesX,
\* row = (i-1) div tilesX, taken after the scroll to (col * viewportWidth,
\* row * viewportHeight); the indices are 1, 2, ... without gaps, each cell
\* gives one tile, and the batch that is sent keeps this order.
C10_RowMajorOrder ==
  \A s \in Sessions :
    LET c == cap[s]
        columns == CeilOf(page.pageWidth, page.viewportWidth)
        rows == CeilOf(page.pageHeight, page.viewportHeight)
        CellOf(i) == <<((i - 1) % columns) * page.viewportWidth,
                       ((i - 1) \div columns) * page.viewportHeight>>
    IN /\ \A i \in 1..Len(c.tiles) :
            /\ i <= columns * rows
            /\ c.tiles[i].text = TextOfCell(i, columns * rows, columns, c.textMessage)
            /\ c.tiles[i].image = CellOf(i)
       /\ InTileLoop(c) =>
            /\ c.tileIndex = Len(c.tiles) + 1
            /\ c.scrolls = c.tileIndex
            /\ c.col = (c.tileIndex - 1) % columns
            /\ c.row = (c.tileIndex - 1) \div columns
            /\ c.scrollTo = CellOf(c.tileIndex)
            /\ c.pc \in {"settle", "capture", "backoff"} => scroll = c.scrollTo
       /\ \A i \in 1..Len(c.posts) :
            /\ c.posts[i] = c.tiles
            /\ Len(c.tiles) = columns * rows

\* The batch of a 2 x 2 grid is sent, its third tile being cell (0, 1).
C10_Witness ==
  \E s \in Sessions :
    /\ Len(cap[s].posts) = 1
    /\ cap[s].tilesX = 2 /\ cap[s].tilesY = 2
    /\ page.viewportWidth = 2 /\ page.viewportHeight = 1
    /\ Len(cap[s].posts[1]) = 4
    /\ cap[s].posts[1][2].image = <<2, 0>>
    /\ cap[s].posts[1][3].image = <<0, 1>>
    /\ cap[s].posts[1][3].text = "Tile 3/4 at 0,1"

\* The record of a handleWsCommand call that returned without an await.
SyncReturn(r, s, c, error) ==
  [requestId |-> r, origin |-> s, at |-> "sync", command |-> c,
   success |-> FALSE, error |-> error]

\* The Result {type: "result", requestId, success, error} as written to socket s.
ResultOn(s, r, success, error) ==
  [type |-> "result", tab |-> FALSE, requestId |-> r, success |-> success,
   error |-> error, via |-> s, from |-> s]

NoTargetMessage == "No selector or coordinates provided"

\* C11: a click command with neither a selector nor coordinates returns
\* {success: false, error: "No selector or coordinates provided"} without an
\* await: executeInTab is not called (no script injection, no message to the
\* tab), and the Result with the command's requestId is what the handler
\* writes to the connection that delivered the command.
C11_ClickWithoutTarget ==
  [][\A s \in SockIds, r \in ReqIds :
       ReceiveCommand(s, r, Command("click", FALSE, FALSE, FALSE)) =>
         /\ cmds'[r] = Idle
         /\ completed' = <<SyncReturn(r, s, Command("click", FALSE, FALSE, FALSE),
                                      NoTargetMessage)>>
         /\ s = ws => wire' = <<ResultOn(s, r, FALSE, NoTargetMessage)>>
         /\ Len(wire') <= 1
     ]_vars

\* The Result of a click without a target is on the wire.
C11_Witness ==
  /\ Len(completed) = 1
  /\ completed[1].at = "sync"
  /\ completed[1].command.type = "click"
  /\ ~completed[1].command.selector /\ ~completed[1].command.xy
  /\ Len(wire) = 1
  /\ wire[1].type = "result" /\ ~wire[1].success
  /\ wire[1].error = "No selector or coordinates provided"

NoUrlMessage == "No URL provided"

\* C12: a navigate command without a url returns {success: false, error: "No
\* URL provided"} without calling chrome.tabs.update, and exactly the Result
\* {type: "result", requestId, success: false, error: "No URL provided"} is
\* written; with a url, chrome.tabs.update is called, and when it resolves
\* the Result carries success: true.
C12_NavigateUrl ==
  [][\A s \in SockIds, r \in ReqIds :
       /\ \A url \in BOOLEAN :
            ReceiveCommand(s, r, Command("navigate", FALSE, FALSE, url)) =>
              IF url
              THEN cmds'[r].pc = "update" /\ wire' = <<>> /\ completed' = <<>>
              ELSE /\ cmds'[r] = Idle
                   /\ completed' = <<SyncReturn(r, s, Command("navigate", FALSE, FALSE, url),
                                                NoUrlMessage)>>
                   /\ s = ws => wire' = <<ResultOn(s, r, FALSE, NoUrlMessage)>>
                   /\ Len(wire') <= 1
       /\ (cmds[r].pc = "update" /\ cmds[r].origin = s /\ CommandStep(r, "ok")) =>
            /\ Len(completed') = 1
            /\ completed'[1].requestId = r /\ completed'[1].success
            /\ (s = ws /\ IsOpen(Chan)) => wire' = <<ResultOn(s, r, TRUE, NULL)>>
     ]_vars

\* The Result of the navigate command r1 without a url is on the wire.
C12_Witness ==
  /\ completed # <<>>
  /\ completed[1].command.type = "navigate" /\ ~completed[1].command.url
  /\ wire = <<ResultOn(ws, "r1", FALSE, "No URL provided")>>

\* C13: right after a wsDisconnect request is handled, whatever the state it
\* arrived in: no reconnect timer is pending, the attempt counter is 0, the
\* channel references no socket and none of its sockets is live any more,
\* the endpoint is cleared (in memory and in storage), and the status last
\* broadcast is "disconnected".
C13_DisconnectTearsDown ==
  [][WsDisconnect =>
       /\ timers' = {}
       /\ reconnectTimeout' = NoTimer
       /\ reconnectAttempts' = 0
       /\ ws' = NoSock
       /\ LiveSockets' = {}
       /\ wsUrl' = NULL /\ storedUrl' = NULL
       /\ statusBroadcast' = "disconnected"
     ]_vars

FailedWith(c, message) ==
  /\ c.pc = "done"
  /\ c.response = [sent |-> TRUE, success |-> FALSE, tileCount |-> 0,
                   mode |-> NULL, error |-> message]

\* C14: the submission succeeds only on a status 200-299. On another status
\* the request fails and the requester gets {success: false, error: "HTTP
\* <status>: <reason>"}; when the fetch rejects it gets {success: false,
\* error} with the rejection's message; in both cases nothing is posted
\* again. On a 2xx status the requester gets success: true: the call goes on
\* without an error and its answer, sent when the resetScroll message that
\* follows has settled, is a success; no request reports success without a
\* 2xx response.
C14_SubmissionStatus ==
  [][\A s \in Sessions :
       /\ \A r \in FetchOutcomes :
            PostSettled(s, r) =>
              /\ cap'[s].posts = cap[s].posts
              /\ CASE r.kind = "reject" -> FailedWith(cap'[s], "Failed to fetch")
                   [] r.status = 404 -> FailedWith(cap'[s], "HTTP 404: Not Found")
                   [] r.status = 500 ->
                        FailedWith(cap'[s], "HTTP 500: Internal Server Error")
                   [] OTHER -> /\ r.status \in 200..299
                               /\ cap'[s].pc = "reset"
                               /\ ~cap'[s].response.sent
       /\ \A ok \in BOOLEAN :
            ResetSettled(s, ok) =>
              /\ cap'[s].response.sent /\ cap'[s].response.success
              /\ cap'[s].response.error = NULL
       /\ (cap'[s].response.success /\ ~cap[s].response.success) =>
            cap[s].pc = "reset"
       /\ cap[s].pc \in {"reset", "done"} => cap'[s].posts = cap[s].posts
       /\ cap'[s].pc = "reset" => cap[s].pc \in {"post", "reset"}
     ]_vars

\* C15: each record of the batch is {text, image, hidden}; hidden is the
\* flag of the request; text is "<annotation> [Tile <index>/<total> at
\* <col>,<row>]" with an annotation and "Tile <index>/<total> at <col>,<row>"
\* without one; a 1 x 1 grid with annotation "hi" and hidden false gives the
\* batch [{text: "hi [Tile 1/1 at 0,0]", image, hidden: false}], in one POST.
C15_TileRecords ==
  \A s \in Sessions :
    LET c == cap[s]
        annotated == c.textMessage = "hi"
    IN /\ \A p \in 1..Len(c.posts) : \A i \in 1..Len(c.posts[p]) :
            LET tile == c.posts[p][i]
            IN /\ DOMAIN tile = {"text", "image", "hidden"}
               /\ tile.hidden = c.hidden
               /\ tile.text = TextOfCell(i, c.tilesX * c.tilesY, c.tilesX, c.textMessage)
               /\ annotated => tile.text = "hi [" \o TextOfCell(i, Len(c.posts[p]), c.tilesX, NULL) \o "]"
               /\ (i = 1 /\ c.tilesX = 1 /\ c.tilesY = 1) =>
                    tile.text = IF annotated THEN "hi [Tile 1/1 at 0,0]"
                                ELSE "Tile 1/1 at 0,0"
               /\ (i = 3 /\ c.tilesX = 2 /\ c.tilesY = 2) =>
                    tile.text = IF annotated THEN "hi [Tile 3/4 at 0,1]"
                                ELSE "Tile 3/4 at 0,1"
       /\ (c.posts # <<>> /\ annotated /\ ~c.hidden /\ c.tilesX = 1 /\ c.tilesY = 1) =>
            c.posts = <<(<<[text |-> "hi [Tile 1/1 at 0,0]", image |-> Origin,
                            hidden |-> FALSE]>>)>>

\* The batch of the 1 x 1 grid with annotation "hi" has been posted.
C15_Witness ==
  \E s \in Sessions :
    /\ cap[s].textMessage = "hi"
    /\ cap[s].posts = <<(<<[text |-> "hi [Tile 1/1 at 0,0]", image |-> <<0, 0>>,
                            hidden |-> FALSE]>>)>>

\* The channel is Open or Connecting to endpoint u.
LiveTo(u) ==
  /\ ws # NoSock
  /\ sockets[ws].state \in {"CONNECTING", "OPEN"}
  /\ sockets[ws].url = u

\* C16: a wsConnect request for a valid endpoint u that arrives while the
\* channel is not already Open or Connecting to u (another attempt may be in
\* progress, a reconnect timer may be pending) leaves every earlier socket
\* closing or closed, no reconnect timer pending and the attempt counter at
\* 0, and has created a socket for u, so that the channel is Connecting.
C16_ConnectReplaces ==
  [][\A u \in Urls :
       (WsConnect(u) /\ ~LiveTo(u)) =>
         /\ timers' = {}
         /\ reconnectAttempts' = 0
         /\ ws' # NoSock
         /\ sockets'[ws'].state = "CONNECTING" /\ sockets'[ws'].url = u
         /\ isConnecting'
         /\ LiveSockets' = {ws'}
     ]_vars

\* The channel has lost its connection: an endpoint is configured (wsUrl is
\* truthy, as connectWebSocket and scheduleReconnect test it) and no socket is
\* connecting or open.
Lost == wsUrl # NULL /\ LiveSockets = {}

\* The model cannot follow the channel any further: the attempt counter is
\* at its cap.
AtCap == reconnectAttempts >= MaxFairAttempts

\* A step in which new WebSocket(wsUrl) throws: connectWebSocket is called
\* with an endpoint the constructor rejects, from the startup callback or
\* from a reconnect timer, and passes its guards.
ConstructorThrows ==
  \/ \E u \in BadUrls : Startup(u) /\ ~isConnecting /\ ~IsOpen(Chan)
  \/ \E t \in TimerIds :
       TimerFired(t) /\ wsUrl \in BadUrls /\ ~isConnecting /\ ~IsOpen(Chan)

\* The same in a wsConnect request, whose disconnectWebSocket comes first.
ConstructorThrowsInConnect == \E u \in BadUrls : WsConnect(u) /\ ~isConnecting

\* A step in which connectWebSocket calls new WebSocket(wsUrl): a socket is
\* created, or the constructor throws.
ConnectAttempt ==
  \/ \E s \in SockIds : sockets[s].state = "NONE" /\ sockets'[s].state = "CONNECTING"
  \/ ConstructorThrows
  \/ ConstructorThrowsInConnect

\* What a close event of socket s does while an endpoint is configured: the
\* channel is Disconnected (ws is null, isConnecting false), "disconnected"
\* is broadcast and one reconnect timer is set.
CloseHandled ==
  \A s \in SockIds :
    ((SocketClose(s) \/ SocketError(s)) /\ wsUrl # NULL) =>
      /\ ws' = NoSock /\ ~isConnecting'
      /\ statusBroadcast' = "disconnected"
      /\ scheduledDelay' >= 1000
      /\ reconnectTimeout' \in timers' \ timers
      /\ Cardinality(timers') = Cardinality(timers) + 1

\* After a constructor that threw, the channel is Disconnected (not
\* connecting, not open) and one reconnect timer is set.
ThrowHandled ==
  (ConstructorThrows \/ ConstructorThrowsInConnect) =>
    /\ ~isConnecting'
    /\ ~(ws' # NoSock /\ sockets'[ws'].state = "OPEN")
    /\ scheduledDelay' >= 1000
    /\ reconnectTimeout' \in timers'
    /\ wsUrl' # NULL

\* A channel that has lost its connection leaves that state only by a
\* connection attempt or because the endpoint is cleared.
LostUntilAttempt ==
  (Lost /\ ~Lost') => (ConnectAttempt \/ wsUrl' = NULL)

\* With timers that fire, a channel does not stay for ever in the state of
\* having lost its connection without making connection attempts again and
\* again: together with LostUntilAttempt, a channel that has lost its
\* connection makes a new connection attempt unless the endpoint is cleared
\* first.
ReconnectsEventually ==
  <>[](Lost /\ ~AtCap) => []<><<ConnectAttempt>>_vars

\* C17 as stated: when the connection closes (after an error or not) or the
\* socket cannot be created, while an endpoint is configured and no
\* disconnect was requested, the channel is Disconnected, "disconnected" is
\* broadcast and a reconnect is scheduled; and with timers that fire a new
\* connection attempt is eventually made.
C17_FailureBroadcasts ==
  /\ [][/\ CloseHandled
        /\ ThrowHandled
        /\ LostUntilAttempt
        /\ (ConstructorThrows \/ ConstructorThrowsInConnect) =>
             statusBroadcast' = "disconnected"
       ]_vars
  /\ ReconnectsEventually

\* C17, amended: when a socket closes (after an error or not) while an
\* endpoint is configured, the channel is Disconnected (ws is null,
\* isConnecting false), "disconnected" is broadcast and one reconnect timer
\* is set. When the WebSocket constructor throws, the channel is Disconnected
\* and one reconnect timer is set as well, but the catch block broadcasts
\* nothing: in the startup callback and in a timer callback the status last
\* broadcast stands ("disconnected" in a wsConnect request, from its
\* disconnectWebSocket). With timers that fire, a channel that has lost its
\* connection makes a new connection attempt unless the endpoint is cleared
\* first: the loss is never final.
C17_ReconnectAfterClose ==
  /\ [][/\ CloseHandled
        /\ ThrowHandled
        /\ LostUntilAttempt
        /\ ConstructorThrows => statusBroadcast' = statusBroadcast
        /\ ConstructorThrowsInConnect => statusBroadcast' = "disconnected"
       ]_vars
  /\ ReconnectsEventually

\* The channel lost its connection twice in a row, by an error each time,
\* and the second reconnect is scheduled.
C17_Witness ==
  /\ Lost
  /\ wsUrl \in Urls
  /\ statusBroadcast = "disconnected"
  /\ reconnectAttempts = 2
  /\ scheduledDelay = 2000
  /\ reconnectTimeout \in timers

\* C18: after an open, the handler of the opened socket sends exactly one
\* message {type: "connected"} on that socket: with the active tab's id, url
\* and title when chrome.tabs.query gives a tab, and without tab info when it
\* gives none or rejects. Stated for the case that the socket is still the
\* channel's open socket when the query settles.
C18_HelloOnOpen ==
  [][\A s \in SockIds, o \in {"tab", "notab", "fail"} :
       (HelloResolved(s, o) /\ ws = s /\ sockets[s].state = "OPEN") =>
         /\ Len(wire') = 1
         /\ wire'[1].type = "connected"
         /\ wire'[1].via = s
         /\ wire'[1].tab = (o = "tab")
     ]_vars

\* C19: a message that is not JSON is discarded: nothing is written to any
\* socket and no handleWsCommand call starts or returns; the sockets, ws, the
\* attempt counter, the timers and the status stay as they were; and the
\* socket that delivered it is still open and takes the next command.
C19_MalformedDiscarded ==
  /\ [][\A s \in SockIds :
          ReceiveMalformed(s) =>
            /\ wire' = <<>> /\ completed' = <<>> /\ cmds' = cmds
            /\ sockets' = sockets /\ ws' = ws /\ isConnecting' = isConnecting
            /\ reconnectAttempts' = reconnectAttempts
            /\ timers' = timers /\ reconnectTimeout' = reconnectTimeout
            /\ scheduledDelay' = 0
            /\ statusBroadcast' = statusBroadcast
            /\ wsUrl' = wsUrl
       ]_vars
  /\ [](discarded # NoSock =>
          /\ sockets[discarded].state = "OPEN"
          /\ \A r \in ReqIds : cmds[r].pc = "idle" =>
                \A c \in Commands : ENABLED ReceiveCommand(discarded, r, c))

\* A malformed message arrived on the open socket while a command is served.
C19_Witness ==
  /\ discarded # NoSock /\ discarded = ws
  /\ IsOpen(Chan)
  /\ statusBroadcast = "connected"
  /\ cmds["r1"].pc = "message"
  /\ cmds["r2"].pc = "idle"

\* C20: a failure while a command is served (a type the switch does not
\* know, a rejected executeScript, sendMessage, tabs.update or
\* captureVisibleTab) ends the handleWsCommand call with success: false and
\* an error text, sent as a Result with the command's requestId; no step of
\* a command touches the connection: the sockets, ws, the timers, the attempt
\* counter and the status stay as they were, and the requestId is free for
\* the next command.
C20_CommandFailureContained ==
  [][\A r \in ReqIds :
       /\ \A s \in SockIds :
            ReceiveCommand(s, r, Command("bogus", FALSE, FALSE, FALSE)) =>
              completed' = <<SyncReturn(r, s, Command("bogus", FALSE, FALSE, FALSE),
                                        "Unknown command type: bogus")>>
       /\ (CommandStep(r, "reject") /\ cmds[r].pc # "settle") =>
            /\ Len(completed') = 1
            /\ completed'[1].requestId = r
            /\ ~completed'[1].success
            /\ completed'[1].error \in {"executeScript rejected", "sendMessage rejected",
                                         "tabs.update rejected",
                                         "captureVisibleTab rejected"}
       /\ (cmds'[r] # cmds[r] \/ completed' # <<>>) =>
            /\ sockets' = sockets /\ ws' = ws /\ isConnecting' = isConnecting
            /\ timers' = timers /\ reconnectTimeout' = reconnectTimeout
            /\ reconnectAttempts' = reconnectAttempts
            /\ scheduledDelay' = 0
            /\ statusBroadcast' = statusBroadcast
       /\ \A i \in 1..Len(completed') :
            (completed'[i].requestId = r /\ ~completed'[i].success) =>
              /\ completed'[i].error # NULL
              /\ cmds'[r] = Idle
              /\ Len(wire') <= 1
              /\ IsOpen(Chan) =>
                    wire' = <<[type |-> "result", tab |-> FALSE, requestId |-> r,
                               success |-> FALSE, error |-> completed'[i].error,
                               via |-> ws, from |-> completed'[i].origin]>>
     ]_vars

\* The Result of a command whose script injection was rejected is on the
\* wire while the connection is open and another command is being served.
C20_Witness ==
  /\ IsOpen(Chan)
  /\ Len(completed) = 1
  /\ completed[1].error = "executeScript rejected"
  /\ Len(wire) = 1
  /\ wire[1].requestId = "r2" /\ ~wire[1].success
  /\ wire[1].error = "executeScript rejected"
  /\ cmds["r1"].pc = "capture"

\* The message of a capture error that is not the rate-limit error.
OtherErrorMessage == "capture failed"

\* C21: when captureVisibleTab rejects with an error that is not the
\* rate-limit error, the request ends at once: the requester gets {success:
\* false, error} with that error's message, no backoff wait follows, nothing
\* is posted, and captureVisibleTab is not called again, neither for that
\* tile nor for a later one (an ended request starts no tile and makes no
\* call).
C21_OtherErrorPropagates ==
  [][\A s \in Sessions :
       /\ CaptureSettled(s, "error") =>
             /\ FailedWith(cap'[s], OtherErrorMessage)
             /\ cap'[s].captureCalls = cap[s].captureCalls
             /\ cap'[s].backoffs = cap[s].backoffs
             /\ cap'[s].tileIndex = cap[s].tileIndex
             /\ cap'[s].tiles = cap[s].tiles
             /\ cap'[s].posts = <<>>
       /\ FailedWith(cap[s], OtherErrorMessage) => cap'[s] = cap[s]
     ]_vars

\* The second of four tiles fails on its first capture call.
C21_Witness ==
  \E s \in Sessions :
    /\ FailedWith(cap[s], OtherErrorMessage)
    /\ cap[s].captureCalls = 1 /\ cap[s].backoffs = 0
    /\ cap[s].tileIndex = 2 /\ Len(cap[s].tiles) = 1 /\ cap[s].totalTiles = 4

\* C22: a request that has scrolled the page away from the origin and has
\* answered its requester has asked the tab for resetScroll, whether it
\* succeeded or failed (a capture error, the rate limit, a failed POST).
C22_ScrollResetAlways ==
  \A s \in Sessions :
    (cap[s].pc = "done" /\ cap[s].scrolls > 0 /\ scroll # Origin)
      => cap[s].resets >= 1

\* C23: once every tile is captured and the endpoint accepted the batch, a
\* resetScroll call that fails leaves the request a success: the requester
\* gets {success: true, tileCount}.
C23_ResetFailureTolerated ==
  [][\A s \in Sessions :
       ResetSettled(s, FALSE) =>
          /\ cap'[s].response.sent /\ cap'[s].response.success
          /\ cap'[s].response.tileCount = cap[s].totalTiles
     ]_vars

\* The call is in the scroll -> settle -> capture cycle of a tile.
InCycle(c) == c.pc \in {"scroll", "settle", "capture", "backoff"}

\* C24: at most one scroll -> settle -> capture cycle is in progress at a
\* time, also when a second captureFullPage request arrives while the first
\* is being served.
C24_OneCycleAtATime ==
  Cardinality({s \in ConcurrentSessions : InCycle(cap[s])}) <= 1

\* The awaits of captureTextMode and those of captureFullPage.
TextPcs == {"turndown", "content", "extract", "textpost"}

TilingPcs == {"inject", "dims", "scroll", "settle", "capture", "backoff", "post", "reset"}

\* C25: a request with captureMode 'text' never scrolls, never calls
\* captureVisibleTab and never asks for the scroll reset; it makes at most
\* one POST, exactly one when it succeeds, whose body is a one-element batch
\* {text, hidden} without an image; it makes no POST when the content
\* extraction fails. Any other request takes the tiling path only: it is
\* never at an await of the text path, every body it posts is its tile
\* array, and its answer names no text mode.
C25_TextModeExclusive ==
  \A s \in Sessions :
    LET c == cap[s] IN
    /\ c.captureMode = "text" =>
          /\ c.pc \notin TilingPcs
          /\ c.scrolls = 0 /\ c.captureCalls = 0 /\ c.resets = 0
          /\ c.tiles = <<>> /\ scroll = Origin
          /\ Len(c.posts) <= 1
          /\ \A i \in 1..Len(c.posts) :
                /\ Len(c.posts[i]) = 1
                /\ DOMAIN c.posts[i][1] = {"text", "hidden"}
                /\ c.posts[i][1].hidden = c.hidden
          /\ c.response.success => (Len(c.posts) = 1 /\ c.response.mode = "text")
          /\ FailedWith(c, ExtractFailedMessage) => c.posts = <<>>
          /\ c.pc \in {"turndown", "content", "extract"} => c.posts = <<>>
    /\ (c.captureMode # "text" /\ c.pc # "idle") =>
          /\ c.pc \notin TextPcs
          /\ \A i \in 1..Len(c.posts) :
                /\ c.posts[i] = c.tiles
                /\ \A j \in 1..Len(c.posts[i]) :
                      DOMAIN c.posts[i][j] = {"text", "image", "hidden"}
          /\ c.response.mode = NULL
          /\ c.response.success =>
                (Len(c.posts) = 1 /\ c.scrolls = c.totalTiles /\ c.resets = 1)

\* A text request with an annotation has succeeded with its one POST.
C25_Witness ==
  \E s \in Sessions :
    /\ cap[s].captureMode = "text" /\ cap[s].pc = "done"
    /\ cap[s].response.success /\ cap[s].response.mode = "text"
    /\ cap[s].posts = <<TextPayload(cap[s], "# T")>>
    /\ cap[s].posts[1][1].text = "hi\n\n---\n\n# T"
    /\ cap[s].hidden

\* C26: the close and error events of a socket that is not the channel's
\* current one, while the channel holds a newer live socket, leave ws,
\* isConnecting and that socket as they were.
C26_StaleHandlersHarmless ==
  [][\A s \in SockIds :
       ((SocketClose(s) \/ SocketError(s)) /\ ws # NoSock /\ ws # s
          /\ ws \in LiveSockets)
         => /\ ws' = ws
            /\ isConnecting' = isConnecting
            /\ sockets'[ws] = sockets[ws]
     ]_vars

\* C27: every Result is written to the connection that delivered its
\* Command and carries the requestId of the command whose dispatch returned.
C27_ResultOnSameConnection ==
  \A i \in 1..Len(wire) :
    wire[i].type = "result" =>
      /\ wire[i].via = wire[i].from
      /\ \E j \in 1..Len(completed) : wire[i].requestId = completed[j].requestId

\* C28: isConnecting is true exactly when ws points at a socket in
\* CONNECTING state; it is never true while ws is null.
C28_ConnectingFlagExact ==
  isConnecting <=> (ws # NoSock /\ sockets[ws].state = "CONNECTING")

\* onMessage wsStatus: sendResponse({connected: ws && ws.readyState ===
\* WebSocket.OPEN, url: wsUrl}), connected read as the popup reads it (truthy
\* or not).
wsStatus == [connected |-> IsOpen(Chan), url |-> wsUrl]

\* No socket event is awaiting delivery: no socket is still connecting (its
\* open or close is to come) or in the closing handshake (its close is to
\* come).
NoSocketEventPending ==
  \A s \in SockIds : sockets[s].state \notin {"CONNECTING", "CLOSING"}

\* C29: when no socket event is awaiting delivery, wsStatus answers
\* connected: true exactly when the last wsStatusUpdate broadcast carried
\* connected: true, and exactly when a socket created by the channel is OPEN.
C29_StatusConsistent ==
  NoSocketEventPending =>
    /\ wsStatus.connected <=> (statusBroadcast = "connected")
    /\ wsStatus.connected <=> (\E s \in SockIds : sockets[s].state = "OPEN")

\* C30: every captureFullPage request ends with exactly one sendResponse
\* call (success or {success: false, error}) when each collaborator call
\* settles; sendResponse is never called twice; during the request
\* captureVisibleTab is called at most 3 * tilesX * tilesY times in all, at
\* most 3 times and with at most 2 backoff waits for a tile.
C30_CaptureTerminates ==
  /\ [](\A s \in Sessions :
          /\ cap[s].responses <= 1
          /\ cap[s].responses = 1 <=> cap[s].pc = "done"
          /\ cap[s].response.sent <=> cap[s].pc = "done"
          /\ cap[s].totalCalls <= CaptureAttempts * cap[s].tilesX * cap[s].tilesY
          /\ cap[s].totalCalls <= CaptureAttempts * cap[s].tileIndex
          /\ cap[s].tileIndex <= cap[s].tilesX * cap[s].tilesY
          /\ cap[s].captureCalls <= CaptureAttempts
          /\ cap[s].backoffs <= CaptureAttempts - 1)
  /\ \A s \in Sessions :
       (cap[s].pc # "idle") ~> (cap[s].pc = "done" /\ cap[s].responses = 1)

\* A request for four tiles has ended with twelve capture calls: two
\* rate-limit rejections for each tile but the last, three for the last.
C30_Witness ==
  \E s \in Sessions :
    /\ cap[s].pc = "done" /\ cap[s].responses = 1
    /\ cap[s].totalTiles = 4 /\ cap[s].totalCalls = 12
    /\ cap[s].backoffs = 2
    /\ cap[s].response.error = RateLimitMessage

====
